---------------------------- MODULE Spec2Model ----------------------------
(***************************************************************************)
(* Model of the two thesis-list generators of this repository:             *)
(*   prog = "author" : src/code/parse_theses.c      (fixed capacity,       *)
(*                     author-primary order, alphabetical navigation)      *)
(*   prog = "year"   : src/code/parse_theses_year.c (dynamic collection,   *)
(*                     year-primary order, year navigation)                *)
(* One run of main is modelled step by step: fopen, one step per line read *)
(* by parse_text, fclose, the check of the parse result, qsort (with the   *)
(* comparator calls it makes), and write_html (navigation, one step per    *)
(* record, summary).                                                       *)
(*                                                                         *)
(* Strings are sequences of character codes, so that strcmp, toupper and   *)
(* the trimming of the line terminator are computed as the C library       *)
(* computes them.                                                          *)
(*                                                                         *)
(* Assumptions on the environment: every line of the input is shorter than *)
(* STRLEN - 1 characters and ends with "\n" or "\r\n" (so fgets returns   *)
(* whole lines and no strcpy overflows a buffer), and malloc and realloc   *)
(* succeed (the code does not test their result).                          *)
(***************************************************************************)
EXTENDS Integers, Sequences, FiniteSets, TLC

VARIABLES
    prog,      \* which of the two programs runs
    file,      \* the input file: the sequence of raw lines fgets will return
    pc,        \* position of main
    fp,        \* the stream: "none", "open", "null" (fopen failed), "closed"
    pos,       \* number of lines already returned by fgets
    i,         \* parse_text: field position
    cnt,       \* parse_text: number of complete records
    entry,     \* the collection; Len(entry) is its capacity in records
    wr,        \* index (0-based) of the record last written by parse_text, -1 if none
    num,       \* main: the count returned by parse_text (cnt in parse_theses.c's main)
    cmp,       \* the last call of the comparator made by qsort: <<x, y, result>>
    sorted,    \* qsort has returned
    ri,        \* write_html: loop index i of the record loop
    j,         \* write_html (alphabetical): next bucket
    ms_cnt,    \* write_html: number of "MS" degrees so far
    phd_cnt,   \* write_html: number of "PhD" degrees so far
    year,      \* write_html (year): the year buffer
    out,       \* stdout: the sequence of items written
    err,       \* stderr: the sequence of messages written
    status     \* exit status of the process, meaningful when pc = "exit"

vars == <<prog, file, pc, fp, pos, i, cnt, entry, wr, num, cmp, sorted,
          ri, j, ms_cnt, phd_cnt, year, out, err, status>>

---------------------------------------------------------------------------
(* Bounds and program constants *)

\* Size of every character buffer.
STRLEN == 512

\* Capacity of the fixed collection. The source sets 500; the model scales it
\* down so that the limit is reached. The code uses it only in cnt >= MAX_DOC.
MAX_DOC == 4

\* Lines the input may hold beyond 8 * MAX_DOC.
ExtraLines == 1

\* Largest number of records in the inputs of the sorting specifications.
MaxRecs == 3

MaxLines == 8 * MAX_DOC + ExtraLines

---------------------------------------------------------------------------
(* C library functions, on sequences of character codes *)

\* s[k] of a NUL-terminated string (k from 0): the terminator past its end.
CharAt(s, k) == IF k < Len(s) THEN s[k + 1] ELSE 0

\* toupper in the C locale.
toupper(c) == IF c >= 97 /\ c <= 122 THEN c - 32 ELSE c

RECURSIVE strcmp(_, _)
\* strcmp: the difference of the first pair of bytes that differ, 0 if none.
strcmp(a, b) ==
    IF a = <<>> /\ b = <<>> THEN 0
    ELSE IF CharAt(a, 0) # CharAt(b, 0) THEN CharAt(a, 0) - CharAt(b, 0)
    ELSE strcmp(Tail(a), Tail(b))

RECURSIVE strcspn(_, _)
\* strcspn(s, reject): length of the prefix of s holding no byte of reject.
strcspn(s, reject) ==
    IF s = <<>> \/ s[1] \in reject THEN 0 ELSE 1 + strcspn(Tail(s), reject)

\* line[strcspn(line, "\r\n")] = 0
Trim(line) == SubSeq(line, 1, strcspn(line, {13, 10}))

\* author1[0] = toupper(author1[0]) on a copy of the author field.
Upper1(s) == IF s = <<>> THEN s ELSE <<toupper(s[1])>> \o Tail(s)

Sign(n) == IF n < 0 THEN -1 ELSE IF n > 0 THEN 1 ELSE 0

---------------------------------------------------------------------------
(* Records *)

FieldName == <<"author", "year", "title", "advisor", "affiliation", "degree", "url">>

\* The content of a buffer that was never written.
Uninit == <<-1>>

UninitRec == [f \in {FieldName[k] : k \in 1..7} |-> Uninit]

NoRec == [f \in {FieldName[k] : k \in 1..7} |-> <<>>]

sMS == <<77, 83>>
sPhD == <<80, 104, 68>>

\* The four bucket names "A-G", "H-N", "O-U", "V-Z".
alph == << <<65, 45, 71>>, <<72, 45, 78>>, <<79, 45, 85>>, <<86, 45, 90>> >>

\* What a read of an unwritten or unallocated year buffer may yield.
Garbage == { <<>>, <<63>> }

\* One item written to stdout.
Item(kind, text, rec, n1, n2) ==
    [kind |-> kind, text |-> text, rec |-> rec, n1 |-> n1, n2 |-> n2]

Link(text) == Item("link", text, NoRec, 0, 0)
Anchor(text) == Item("anchor", text, NoRec, 0, 0)
Heading(text) == Item("heading", text, NoRec, 0, 0)
\* The degree row has a second cell iff url[0] != '\0'.
Table(rec) == Item("table", <<>>, rec, IF CharAt(rec.url, 0) = 0 THEN 0 ELSE 1, 0)

---------------------------------------------------------------------------
(* parse_text *)

\* Mutant of NextField: the position wraps one line late.
NextField_late(k) == IF k + 1 = 9 THEN 0 ELSE k + 1

\* i++; if (i == 8) i = 0;
NextField(k) == IF k + 1 = 8 THEN 0 ELSE k + 1

\* Mutant of CountAfter: the record is counted at its 6th field.
CountAfter_early(k, c) == IF k = 5 THEN c + 1 ELSE c

\* case 6: ... cnt++
CountAfter(k, c) == IF k = 6 THEN c + 1 ELSE c

\* Mutant of LimitReached: the limit is detected one record late.
LimitReached_late(c) == c > MAX_DOC

\* if (cnt >= MAX_DOC) of the fixed-capacity program
LimitReached(c) == c >= MAX_DOC

\* case 0 of the dynamic program: malloc of one record when entry is NULL,
\* otherwise realloc to cnt+1 records; the records kept are unchanged, the
\* new ones are unwritten.
Realloc(e, c) ==
    LET n == IF Len(e) = 0 THEN 1 ELSE c + 1
    IN [k \in 1..n |-> IF k <= Len(e) THEN e[k] ELSE UninitRec]

\* strcpy(entry[c].<field k>, line). A write outside the collection leaves
\* the collection as it is (it lands in other memory).
Store(e, c, k, line) ==
    IF c + 1 <= Len(e) THEN [e EXCEPT ![c + 1][FieldName[k + 1]] = line] ELSE e

---------------------------------------------------------------------------
(* compare and qsort *)

\* Address of entry[x].year relative to the start of the array: year is the
\* second buffer of a struct thesis of seven buffers.
YearAddr(x) == x * (7 * STRLEN) + STRLEN

\* compare of parse_theses.c, called on entry[x] and entry[y]. On equal
\* authors it compares t1->year and t2->year, which are the arrays
\* themselves: the addresses of the two year buffers, not their contents.
compare(t1, t2, x, y) ==
    LET author1 == Upper1(t1.author)
        author2 == Upper1(t2.author)
        authorcompare == strcmp(author1, author2)
    IN IF authorcompare = 0
       THEN IF YearAddr(x) < YearAddr(y) THEN -1
            ELSE IF YearAddr(x) > YearAddr(y) THEN 1
            ELSE 0
       ELSE authorcompare

\* Mutant of compare_year: the years are compared in ascending order.
compare_year_ascending(t1, t2) ==
    LET yearcompare == strcmp(t1.year, t2.year)
    IN IF yearcompare = 0
       THEN strcmp(Upper1(t1.author), Upper1(t2.author))
       ELSE yearcompare

\* compare of parse_theses_year.c
compare_year(t1, t2) ==
    LET yearcompare == strcmp(t2.year, t1.year)
    IN IF yearcompare = 0
       THEN strcmp(Upper1(t1.author), Upper1(t2.author))
       ELSE yearcompare

\* The comparator qsort is given by the program p.
Comparator(p, t1, t2, x, y) ==
    IF p = "author" THEN compare(t1, t2, x, y) ELSE compare_year(t1, t2)

\* qsort(entry, n, sizeof(struct thesis), compare): the first n records in
\* any order the comparator accepts (no record, where it lies at the end,
\* compares greater than its successor); the algorithm is not specified, so
\* records the comparator does not separate may end in any order.
qsort(e, n, p) ==
    IF n <= 1 THEN {e}
    ELSE { [k \in 1..Len(e) |-> IF k <= n THEN e[q[k]] ELSE e[k]] :
             q \in { r \in Permutations(1..n) :
                       \A k \in 1..(n - 1) :
                           Comparator(p, e[r[k]], e[r[k + 1]], k - 1, k) <= 0 } }

---------------------------------------------------------------------------
(* write_html *)

\* Mutant of IsMS: only the first two characters are compared.
IsMS_prefix(d) == CharAt(d, 0) = 77 /\ CharAt(d, 1) = 83

\* strcmp(entry[i].degree, "MS") == 0, else strcmp(entry[i].degree, "PhD") == 0
IsMS(d) == strcmp(d, sMS) = 0
IsPhD(d) == strcmp(d, sPhD) = 0

\* The four links of the alphabetical navigation.
AlphLinks == [k \in 1..4 |-> Link(alph[k])]

\* What strcpy(year, entry[0].year) may read: the buffer if it was written,
\* anything if entry is NULL or the buffer was never written.
FirstYear(e) ==
    IF Len(e) = 0 THEN Garbage
    ELSE IF e[1].year = Uninit THEN Garbage
    ELSE {e[1].year}

RECURSIVE YearLinks(_, _, _, _)
\* The loop over the records that builds the year links: a link each time
\* the year of record k differs from the year buffer y.
YearLinks(e, n, k, y) ==
    IF k >= n THEN <<>>
    ELSE IF strcmp(y, e[k + 1].year) # 0
         THEN <<Link(e[k + 1].year)>> \o YearLinks(e, n, k + 1, e[k + 1].year)
         ELSE YearLinks(e, n, k + 1, y)

\* Insert alphabetical links where necessary:
\* (j < 4) && (toupper(entry[i].author[0]) >= alph[j][0])
BucketReached(rec, b) == b < 4 /\ toupper(CharAt(rec.author, 0)) >= CharAt(alph[b + 1], 0)

\* Mutant of ParseFailed: the failure value is tested off by one.
ParseFailed_missed(n) == n < -1

\* main: if (cnt == -1) / if (num == -1)
ParseFailed(n) == n = -1

---------------------------------------------------------------------------
(* Input files *)

\* A raw line as fgets returns it: the text and its terminator.
Ln(s) == s \o <<10>>
CrLn(s) == s \o <<13, 10>>

\* The raw lines an input may hold at each of the eight positions of a group
\* (author, year, title, advisor, affiliation, degree, url, separator).
\* Inputs of the whole-run specification: degrees "MS", "PhD", "MSc".
DomParse ==
    << {Ln(<<65>>)}, {Ln(<<57>>)}, {Ln(<<84>>)}, {Ln(<<86>>)}, {Ln(<<70>>)},
       {Ln(sMS), CrLn(sPhD), Ln(<<77, 83, 99>>)}, {Ln(<<>>)}, {Ln(<<>>)} >>

\* Inputs of the author-order specification: authors "A", "h", "Z",
\* years "9", "10".
DomAuthor ==
    << {Ln(<<65>>), Ln(<<104>>), Ln(<<90>>)}, {Ln(<<57>>), Ln(<<49, 48>>)},
       {Ln(<<84>>)}, {Ln(<<86>>)}, {Ln(<<70>>)}, {Ln(sMS)}, {Ln(<<117>>)}, {Ln(<<>>)} >>

\* Inputs of the year-order specification: authors "a", "A", "B",
\* years "9", "10".
DomYear ==
    << {Ln(<<97>>), Ln(<<65>>), Ln(<<66>>)}, {Ln(<<57>>), CrLn(<<49, 48>>)},
       {Ln(<<84>>)}, {Ln(<<86>>)}, {Ln(<<70>>)}, {Ln(sPhD)}, {Ln(<<>>)}, {Ln(<<>>)} >>

RECURSIVE FilesOf(_, _)
\* The files of n lines over the domain dom.
FilesOf(dom, n) ==
    IF n = 0 THEN {<<>>}
    ELSE {Append(f, l) : f \in FilesOf(dom, n - 1), l \in dom[((n - 1) % 8) + 1]}

\* Every file of at most MaxLines lines.
InputsParse == UNION {FilesOf(DomParse, n) : n \in 0..MaxLines}

\* Files of at most MaxRecs complete groups, without a last separator.
InputsAuthor == UNION {FilesOf(DomAuthor, 8 * k - 1) : k \in 1..MaxRecs} \cup {<<>>}

\* Files of at most MaxRecs complete groups, and those followed by the first
\* one or two lines of a further group.
InputsYear ==
    UNION {FilesOf(DomYear, n) : n \in {m \in 0..(8 * MaxRecs - 1) : m % 8 \in {0, 1, 2, 7}}}

---------------------------------------------------------------------------
(* The run of main *)

InitRun(progs, inputs) ==
    /\ prog \in progs
    /\ file \in inputs
    /\ pc = "fopen"
    /\ fp = "none"
    /\ pos = 0
    /\ i = 0
    /\ cnt = 0
    /\ entry = IF prog = "author" THEN [k \in 1..MAX_DOC |-> UninitRec] ELSE <<>>
    /\ wr = -1
    /\ num = 0
    /\ cmp = <<-1, -1, 0>>
    /\ sorted = FALSE
    /\ ri = 0
    /\ j = 0
    /\ ms_cnt = 0
    /\ phd_cnt = 0
    /\ year = <<>>
    /\ out = <<>>
    /\ err = <<>>
    /\ status = 0

Init == InitRun({"author", "year"}, InputsParse)
InitAuthor == InitRun({"author"}, InputsAuthor)
InitYear == InitRun({"year"}, InputsYear)

\* fp = fopen(fname, "r"); if (fp == NULL) { ...; return (-1); }
Fopen ==
    /\ pc = "fopen"
    /\ \E ok \in BOOLEAN :
         IF ok
         THEN /\ fp' = "open"
              /\ pc' = "parse"
              /\ UNCHANGED <<err, status>>
         ELSE /\ fp' = "null"
              /\ err' = Append(err, "File not found")
              /\ status' = (-1) % 256
              /\ pc' = "exit"
    /\ UNCHANGED <<prog, file, pos, i, cnt, entry, wr, num, cmp, sorted,
                   ri, j, ms_cnt, phd_cnt, year, out>>

\* One iteration of the loop of parse_text: fgets returns a line.
ParseLine ==
    /\ pc = "parse"
    /\ pos < Len(file)
    /\ LET line == Trim(file[pos + 1])
           grown == IF prog = "year" /\ i = 0 THEN Realloc(entry, cnt) ELSE entry
           c2 == CountAfter(i, cnt)
       IN /\ entry' = IF i <= 6 THEN Store(grown, cnt, i, line) ELSE grown
          /\ wr' = IF i <= 6 THEN cnt ELSE wr
          /\ cnt' = c2
          /\ IF prog = "author" /\ LimitReached(c2)
             THEN /\ err' = Append(err, "Too many entries, need to increase MAX_DOC")
                  /\ num' = -1
                  /\ pc' = "fclose"
                  /\ i' = i
             ELSE /\ i' = NextField(i)
                  /\ UNCHANGED <<err, num, pc>>
    /\ pos' = pos + 1
    /\ UNCHANGED <<prog, file, fp, cmp, sorted, ri, j, ms_cnt, phd_cnt, year, out, status>>

\* fgets returns NULL: parse_text returns cnt (sets *num = cnt).
ParseEOF ==
    /\ pc = "parse"
    /\ pos = Len(file)
    /\ num' = cnt
    /\ pc' = "fclose"
    /\ UNCHANGED <<prog, file, fp, pos, i, cnt, entry, wr, cmp, sorted,
                   ri, j, ms_cnt, phd_cnt, year, out, err, status>>

\* fclose(fp)
Fclose ==
    /\ pc = "fclose"
    /\ fp' = "closed"
    /\ pc' = "check"
    /\ UNCHANGED <<prog, file, pos, i, cnt, entry, wr, num, cmp, sorted,
                   ri, j, ms_cnt, phd_cnt, year, out, err, status>>

\* if (cnt == -1) { fprintf(stderr, ...); return (-1); }
CheckParse ==
    /\ pc = "check"
    /\ IF ParseFailed(num)
       THEN /\ err' = Append(err, "Failed to parse input text file.")
            /\ status' = (-1) % 256
            /\ pc' = "exit"
       ELSE /\ pc' = "qsort"
            /\ UNCHANGED <<err, status>>
    /\ UNCHANGED <<prog, file, fp, pos, i, cnt, entry, wr, num, cmp, sorted,
                   ri, j, ms_cnt, phd_cnt, year, out>>

\* qsort calls the comparator on two records of the array.
QsortCompare ==
    /\ pc = "qsort"
    /\ num >= 2
    /\ \E x \in 0..(num - 1), y \in 0..(num - 1) :
         cmp' = <<x, y, Comparator(prog, entry[x + 1], entry[y + 1], x, y)>>
    /\ UNCHANGED <<prog, file, pc, fp, pos, i, cnt, entry, wr, num, sorted,
                   ri, j, ms_cnt, phd_cnt, year, out, err, status>>

\* qsort returns.
Qsort ==
    /\ pc = "qsort"
    /\ entry' \in qsort(entry, num, prog)
    /\ sorted' = TRUE
    /\ cmp' = <<-1, -1, 0>>
    /\ pc' = "nav"
    /\ UNCHANGED <<prog, file, fp, pos, i, cnt, wr, num,
                   ri, j, ms_cnt, phd_cnt, year, out, err, status>>

Begin == Item("begin", <<>>, NoRec, 0, 0)
End == Item("end", <<>>, NoRec, 0, 0)

\* write_html up to the record loop: the begin marker and the navigation;
\* in the year program also the anchor and the heading of entry[0].year.
WriteNav ==
    /\ pc = "nav"
    /\ IF prog = "author"
       THEN /\ out' = out \o <<Begin>> \o AlphLinks
            /\ year' = year
       ELSE \E y0 \in FirstYear(entry) :
              /\ out' = out \o <<Begin, Link(y0)>> \o YearLinks(entry, num, 0, y0)
                            \o <<Anchor(y0), Heading(y0)>>
              /\ year' = y0
    /\ ri' = 0
    /\ j' = 0
    /\ ms_cnt' = 0
    /\ phd_cnt' = 0
    /\ pc' = "loop"
    /\ UNCHANGED <<prog, file, fp, pos, i, cnt, entry, wr, num, cmp, sorted, err, status>>

\* The year program reads entry[0].year although entry is NULL (no line was
\* read): the read may also end the process (SIGSEGV).
Segfault ==
    /\ pc = "nav"
    /\ prog = "year"
    /\ Len(entry) = 0
    /\ out' = out \o <<Begin>>
    /\ status' = 128 + 11
    /\ pc' = "killed"
    /\ UNCHANGED <<prog, file, fp, pos, i, cnt, entry, wr, num, cmp, sorted,
                   ri, j, ms_cnt, phd_cnt, year, err>>

\* One iteration of the record loop of write_html.
WriteEntry ==
    /\ pc = "loop"
    /\ ri < num
    /\ LET rec == entry[ri + 1]
           mark == IF prog = "author"
                   THEN IF BucketReached(rec, j) THEN <<Anchor(alph[j + 1])>> ELSE <<>>
                   ELSE IF strcmp(year, rec.year) # 0
                        THEN <<Anchor(rec.year), Heading(rec.year)>>
                        ELSE <<>>
       IN /\ ms_cnt' = IF IsMS(rec.degree) THEN ms_cnt + 1 ELSE ms_cnt
          /\ phd_cnt' = IF ~IsMS(rec.degree) /\ IsPhD(rec.degree) THEN phd_cnt + 1 ELSE phd_cnt
          /\ j' = IF prog = "author" /\ BucketReached(rec, j) THEN j + 1 ELSE j
          /\ year' = IF prog = "year" /\ strcmp(year, rec.year) # 0 THEN rec.year ELSE year
          /\ out' = out \o mark \o <<Table(rec)>>
    /\ ri' = ri + 1
    /\ UNCHANGED <<prog, file, pc, fp, pos, i, cnt, entry, wr, num, cmp, sorted, err, status>>

\* The loop is over: the two summary lines and the end marker; main returns 0.
WriteSummary ==
    /\ pc = "loop"
    /\ ri >= num
    /\ out' = out \o <<Item("items", <<>>, NoRec, num, 0),
                       Item("degrees", <<>>, NoRec, ms_cnt, phd_cnt), End>>
    /\ status' = 0
    /\ pc' = "exit"
    /\ UNCHANGED <<prog, file, fp, pos, i, cnt, entry, wr, num, cmp, sorted,
                   ri, j, ms_cnt, phd_cnt, year, err>>

\* The steps both programs take.
Step ==
    \/ Fopen
    \/ ParseLine
    \/ ParseEOF
    \/ Fclose
    \/ CheckParse
    \/ QsortCompare
    \/ Qsort
    \/ WriteNav
    \/ WriteEntry
    \/ WriteSummary

Next == Step \/ Segfault

\* Both programs on every input of at most MaxLines lines.
Spec == Init /\ [][Next]_vars

\* parse_theses.c on inputs of complete groups.
SpecAuthor == InitAuthor /\ [][Step]_vars

\* parse_theses_year.c on inputs of complete groups, with and without the
\* first lines of a further group.
SpecYear == InitYear /\ [][Next]_vars

---------------------------------------------------------------------------
(* Vocabulary of the properties, defined without the operators of the code *)

\* a is lexicographically smaller than b, byte by byte.
LexLess(a, b) ==
    \E k \in 0..Len(a) :
        /\ k <= Len(b)
        /\ \A m \in 1..k : a[m] = b[m]
        /\ IF k = Len(a) THEN k < Len(b) ELSE k < Len(b) /\ a[k + 1] < b[k + 1]

\* -1, 0, 1 as a is smaller than, equal to, greater than b.
LexSign(a, b) == IF LexLess(a, b) THEN -1 ELSE IF LexLess(b, a) THEN 1 ELSE 0

\* s with its first character uppercased.
Norm(s) == [k \in 1..Len(s) |-> IF k = 1 /\ s[k] \in 97..122 THEN s[k] - 32 ELSE s[k]]

\* The number of complete groups of a file whose groups are 7 field lines
\* followed by one separator line (the last separator may be missing).
NumGroups(f) == (Len(f) + 1) \div 8

\* A raw line without its terminator "\n" or "\r\n".
Stripped(raw) ==
    SubSeq(raw, 1, Len(raw) - (IF Len(raw) >= 2 /\ raw[Len(raw) - 1] = 13 THEN 2 ELSE 1))

\* The record of the k-th group of the file: its 7 consecutive field lines.
GroupRec(f, k) ==
    LET b == 8 * (k - 1)
    IN [author |-> Stripped(f[b + 1]), year |-> Stripped(f[b + 2]),
        title |-> Stripped(f[b + 3]), advisor |-> Stripped(f[b + 4]),
        affiliation |-> Stripped(f[b + 5]), degree |-> Stripped(f[b + 6]),
        url |-> Stripped(f[b + 7])]

\* The items of one kind written so far, in order.
Items(kind) == SelectSeq(out, LAMBDA it : it.kind = kind)

\* parse_text has returned to main.
Parsed == fp # "null" /\ pc \in {"fclose", "check", "qsort", "nav", "loop", "exit", "killed"}

\* main has returned 0 after write_html.
Rendered == pc = "exit" /\ status = 0

---------------------------------------------------------------------------
(* C1 *)

\* C1 as stated: for every input whose line count is a multiple of 7,
\* parse_text returns line_count / 7 records and write_html emits
\* line_count / 7 tables.
C1_Original ==
    (Len(file) % 7 = 0) =>
        /\ Parsed => num = Len(file) \div 7
        /\ Rendered => Len(Items("table")) = Len(file) \div 7

\* C1, amended: for every input made of k groups of 7 field lines in which
\* each group but possibly the last is followed by one separator line (8k-1
\* or 8k lines), parse_text returns k records and write_html emits exactly k
\* tables; in the fixed-capacity program for k < MAX_DOC.
C1_Amended ==
    (Len(file) % 8 \in {0, 7} /\ (prog = "year" \/ NumGroups(file) < MAX_DOC)) =>
        /\ Parsed => num = NumGroups(file)
        /\ Rendered => Len(Items("table")) = NumGroups(file)

C1_Witness ==
    /\ Rendered
    /\ Len(file) % 8 = 7
    /\ NumGroups(file) >= 2
    /\ Len(Items("table")) = NumGroups(file)

---------------------------------------------------------------------------
(* C6 *)

\* C6: in the fixed-capacity program parse_text returns -1 (and main then
\* prints no HTML and exits non-zero) exactly when the input holds more
\* complete records than MAX_DOC; with MAX_DOC or fewer it is parsed and
\* rendered.
C6_Claim ==
    (prog = "author" /\ Parsed) =>
        /\ (num = -1) <=> (NumGroups(file) > MAX_DOC)
        /\ (pc = "exit" /\ NumGroups(file) <= MAX_DOC) => (status = 0 /\ out # <<>>)

---------------------------------------------------------------------------
(* C7 *)

\* C7: every field write of parse_text targets a record inside the
\* collection: index < MAX_DOC in the fixed-capacity program, and in the
\* dynamic program a collection already grown to at least index + 1 records.
C7_WritesInBounds ==
    /\ prog = "author" => wr < MAX_DOC /\ Len(entry) = MAX_DOC
    /\ (prog = "year" /\ wr >= 0) => Len(entry) >= wr + 1

C7_Witness ==
    /\ prog = "author"
    /\ wr = MAX_DOC - 1
    /\ num = -1

---------------------------------------------------------------------------
(* C8 *)

\* C8: HTML is written only after the file was opened, parsed without
\* failure, closed and the records sorted; a run whose fopen or parse fails
\* goes on to nothing but its exit, with a non-zero status and an empty
\* stdout.
C8_OutputOnlyAfterSuccess ==
    /\ out # <<>> => (fp = "closed" /\ num # -1 /\ sorted)
    /\ fp = "null" => pc = "exit"
    /\ num = -1 => pc \in {"fclose", "check", "exit"}
    /\ (pc = "exit" /\ (fp = "null" \/ num = -1)) => (status # 0 /\ out = <<>>)

C8_Witness ==
    /\ pc = "exit"
    /\ fp = "closed"
    /\ num = -1
    /\ status # 0
    /\ out = <<>>

---------------------------------------------------------------------------
(* C9 *)

\* The number of indices of the sequence q whose element is r.
Occurrences(q, r) == Cardinality({k \in 1..Len(q) : q[k] = r})

\* The records of the complete groups of the file, in file order.
GroupRecs(f) == [k \in 1..NumGroups(f) |-> GroupRec(f, k)]

\* The records of the tables written so far, in order.
TableRecs == [k \in 1..Len(Items("table")) |-> Items("table")[k].rec]

C9_State ==
    /\ (fp # "null" /\ ~sorted) =>
          /\ cnt = (pos + 1) \div 8
          /\ \A k \in 1..cnt : entry[k] = GroupRec(file, k)
    /\ (Parsed /\ num # -1) => num = NumGroups(file)
    /\ Rendered =>
          /\ Len(TableRecs) = NumGroups(file)
          /\ \A r \in {TableRecs[k] : k \in 1..Len(TableRecs)} :
                Occurrences(TableRecs, r) = Occurrences(GroupRecs(file), r)
          /\ Items("items")[1].n1 = NumGroups(file)

C9_Step == cnt' # cnt => (i = 6 /\ cnt' = cnt + 1)

---------------------------------------------------------------------------
(* C10 *)

\* The number of the first n records of the collection whose degree is d.
DegreeCount(n, d) == Cardinality({k \in 1..n : entry[k].degree = d})

\* C10: at every step of the record loop the MS count is the number of
\* records seen whose degree is exactly "MS" and the PhD count the number
\* whose degree is exactly "PhD", so their sum is at most the number of
\* records seen; the summary reports the record count as 'Number of items'
\* and these two counts over all records.
C10_DegreeCounts ==
    /\ pc = "loop" =>
          /\ ms_cnt = DegreeCount(ri, sMS)
          /\ phd_cnt = DegreeCount(ri, sPhD)
          /\ ms_cnt + phd_cnt <= ri
    /\ Rendered =>
          /\ Items("items") = <<Item("items", <<>>, NoRec, num, 0)>>
          /\ Len(Items("table")) = num
          /\ Items("degrees") =
                <<Item("degrees", <<>>, NoRec, DegreeCount(num, sMS), DegreeCount(num, sPhD))>>

C10_Witness ==
    /\ Rendered
    /\ num = 3
    /\ Items("degrees")[1].n1 = 1
    /\ Items("degrees")[1].n2 = 1

---------------------------------------------------------------------------
(* C2 *)

\* C2: in the author-primary program a call compare(a, b) orders the two
\* records by author with the first character uppercased and, when these
\* are equal, by the content of their year strings: negative, zero or
\* positive as a.year is smaller than, equal to or greater than b.year,
\* wherever the two records lie in the array.
C2_Claim ==
    (prog = "author" /\ pc = "qsort" /\ cmp[1] >= 0) =>
        LET a == entry[cmp[1] + 1]
            b == entry[cmp[2] + 1]
        IN IF Norm(a.author) = Norm(b.author)
           THEN Sign(cmp[3]) = LexSign(a.year, b.year)
           ELSE Sign(cmp[3]) = LexSign(Norm(a.author), Norm(b.author))

---------------------------------------------------------------------------
(* C3 *)

\* a is put before b by the year-primary order.
YearBefore(a, b) ==
    \/ LexLess(b.year, a.year)
    \/ a.year = b.year /\ LexLess(Norm(a.author), Norm(b.author))

\* C3: in the year-primary program compare is sign-antisymmetric and
\* transitive on the records of the collection, is negative exactly when a
\* has the greater year, or the same year and the smaller normalized author,
\* and so is every result qsort gets from it; after qsort the years are
\* non-increasing along the collection and, within one year, the normalized
\* authors non-decreasing.
C3_YearOrder ==
    (prog = "year" /\ pc \in {"qsort", "nav", "loop", "exit"}) =>
        /\ \A x \in 1..num, y \in 1..num :
              /\ (compare_year(entry[x], entry[y]) < 0) <=> YearBefore(entry[x], entry[y])
              /\ Sign(compare_year(entry[y], entry[x])) = -Sign(compare_year(entry[x], entry[y]))
              /\ \A z \in 1..num :
                    (compare_year(entry[x], entry[y]) <= 0 /\ compare_year(entry[y], entry[z]) <= 0)
                        => compare_year(entry[x], entry[z]) <= 0
        /\ cmp[1] >= 0 =>
              /\ (cmp[3] < 0) <=> YearBefore(entry[cmp[1] + 1], entry[cmp[2] + 1])
              /\ (cmp[3] > 0) <=> YearBefore(entry[cmp[2] + 1], entry[cmp[1] + 1])
        /\ sorted =>
              \A k \in 1..(num - 1) :
                  /\ ~LexLess(entry[k].year, entry[k + 1].year)
                  /\ entry[k].year = entry[k + 1].year
                        => ~LexLess(Norm(entry[k + 1].author), Norm(entry[k].author))

C3_Witness ==
    /\ prog = "year"
    /\ sorted
    /\ num = 3
    /\ entry[1].year = entry[2].year
    /\ entry[1].author # entry[2].author
    /\ entry[2].year # entry[3].year
    /\ GroupRec(file, 1) = entry[3]

---------------------------------------------------------------------------
(* C5 *)

RECURSIVE Distinct(_)
\* The values of a sequence in the order of their first appearance.
Distinct(q) ==
    IF q = <<>> THEN <<>>
    ELSE LET d == Distinct(SubSeq(q, 1, Len(q) - 1))
         IN IF \E k \in 1..Len(d) : d[k] = q[Len(q)] THEN d ELSE Append(d, q[Len(q)])

\* The texts of the items of one kind written, in order.
Texts(kind) == [k \in 1..Len(Items(kind)) |-> Items(kind)[k].text]

\* C5: in the year renderer, for a year-sorted collection of any length,
\* zero included, the 'Jump to' links, the year anchors and the year
\* headings are each the distinct years of the collection, in the order of
\* their first appearance.
C5_Claim ==
    (prog = "year" /\ Rendered) =>
        LET years == Distinct([k \in 1..num |-> entry[k].year])
        IN /\ Texts("link") = years
           /\ Texts("anchor") = years
           /\ Texts("heading") = years

---------------------------------------------------------------------------
(* C4 *)

\* The letters of the four buckets: A-G, H-N, O-U, V-Z.
BucketLetters == <<65..71, 72..78, 79..85, 86..90>>

\* The first character of s, uppercased (0 for the empty string).
FirstUpper(s) == IF s = <<>> THEN 0 ELSE Norm(s)[1]

\* C4: in the alphabetical renderer the anchor named after a bucket is
\* written iff some record's uppercased first author character lies in the
\* letters of that bucket.
C4_Claim ==
    (prog = "author" /\ Rendered) =>
        \A b \in 1..4 :
            (\E k \in 1..Len(Items("anchor")) : Items("anchor")[k].text = alph[b])
                <=> (\E k \in 1..num : FirstUpper(entry[k].author) \in BucketLetters[b])

===========================================================================
